---- MODULE Spec2Model ----
(***************************************************************************)
(* A model of the genealogy explorer in src/app.py: the text normalizer,   *)
(* the ingestion of source rows into the four tables, the descendant       *)
(* counter, the affiliation aggregator and the search handler.             *)
(*                                                                         *)
(* Text (names, school names, school ids, queries) is a sequence of        *)
(* one-character strings.  Person ids and dissertation ids are atomic      *)
(* strings: the code only compares them and tests them for emptiness.      *)
(* A table is the sequence of its rows in insertion (rowid) order, which   *)
(* is the order SQLite scans them in when a query has no ORDER BY.         *)
(***************************************************************************)
EXTENDS Integers, Sequences, FiniteSets, TLC

VARIABLES
    people,         \* table people: rows [person_id, name, name_normalized]
    schools,        \* table schools: rows [school_id, school_name, school_name_normalized]
    dissertations,  \* table dissertations: rows [dissertation_id, author_id, school, school_id, year]
    advisors,       \* table advisors: rows [dissertation_id, advisor_id, advisor_number]
    dcStatus,       \* get_descendants_count: "idle", "running", "returned" or "overflow"
    dcRoot,         \* person_id of the outermost call
    visited,        \* the visited set shared by the whole traversal
    stack,          \* the active calls that are inside their for loop, innermost last
    dcResult,       \* (total_descendants, max_depth) returned by the outermost call
    request,        \* request.form of the last search: name_search, school_search
    response,       \* what search() handed to the caller
    affPerson,      \* person_id of the last get_person_affiliations call
    affResult,      \* the list that call returned
    source,         \* the rows of DISSERTATIONS_CSV, in file order
    db_exists,      \* os.path.exists(DB_PATH)
    connections,    \* how many sqlite3 connections are open
    log_exists,     \* os.path.exists(CORRECTIONS_LOG)
    log_rows,       \* the rows of CORRECTIONS_LOG, in file order
    writers         \* the calls of log_correction: where each is, and its locals

vars == <<people, schools, dissertations, advisors, dcStatus, dcRoot, visited,
          stack, dcResult, request, response, affPerson, affResult,
          source, db_exists, connections, log_exists, log_rows, writers>>

store == <<people, schools, dissertations, advisors>>
dcVars == <<dcStatus, dcRoot, visited, stack, dcResult>>
searchVars == <<request, response, affPerson, affResult>>
ingestVars == <<source, db_exists>>
logVars == <<log_exists, log_rows, writers>>

Max(a, b) == IF a >= b THEN a ELSE b

(***************************************************************************)
(* Text                                                                    *)
(***************************************************************************)
\* the characters of the model: two lowercase letters, an uppercase letter,
\* a precomposed accented letter, a bare combining mark, a blank and the two
\* characters LIKE treats as wildcards
Alphabet == {"a", "b", "A", "á", "´", " ", "_", "%"}

\* str.isspace
IsSpace(ch) == ch = " "

\* unicodedata.normalize('NFD', ch): the canonical decomposition of one character
Decompose(ch) == IF ch = "á" THEN <<"a", "´">> ELSE <<ch>>

\* unicodedata.category(ch) == 'Mn'
IsMark(ch) == ch = "´"

\* str.lower on one character
LowerChar(ch) == IF ch = "A" THEN "a" ELSE ch

\* the code point order of the characters (str comparison, BINARY collation)
CharCode(ch) ==
    CASE ch = " " -> 32
      [] ch = "%" -> 37
      [] ch = "A" -> 65
      [] ch = "_" -> 95
      [] ch = "a" -> 97
      [] ch = "b" -> 98
      [] ch = "á" -> 225
      [] ch = "´" -> 769
      [] OTHER -> 0

RECURSIVE NFD(_)
NFD(text) == IF text = <<>> THEN <<>> ELSE Decompose(Head(text)) \o NFD(Tail(text))

RECURSIVE RemoveMarks(_)
RemoveMarks(text) ==
    IF text = <<>> THEN <<>>
    ELSE IF IsMark(Head(text)) THEN RemoveMarks(Tail(text))
    ELSE <<Head(text)>> \o RemoveMarks(Tail(text))

Lower(text) == [i \in 1..Len(text) |-> LowerChar(text[i])]

RECURSIVE LStrip(_)
LStrip(text) ==
    IF text # <<>> /\ IsSpace(Head(text)) THEN LStrip(Tail(text)) ELSE text

RECURSIVE RStrip(_)
RStrip(text) ==
    IF text # <<>> /\ IsSpace(text[Len(text)])
    THEN RStrip(SubSeq(text, 1, Len(text) - 1)) ELSE text

\* str.strip
Strip(text) == RStrip(LStrip(text))

normalize_search_text(text) ==
    IF text = <<>> THEN <<>> ELSE Strip(Lower(RemoveMarks(NFD(text))))

\* str.split(): the maximal runs of non-blank characters, in order
RECURSIVE SplitFrom(_, _)
SplitFrom(text, cur) ==
    IF text = <<>> THEN (IF cur = <<>> THEN <<>> ELSE <<cur>>)
    ELSE IF IsSpace(Head(text))
         THEN (IF cur = <<>> THEN <<>> ELSE <<cur>>) \o SplitFrom(Tail(text), <<>>)
         ELSE SplitFrom(Tail(text), Append(cur, Head(text)))

Split(text) == SplitFrom(text, <<>>)

\* the operator LIKE of SQLite: % matches any run of characters, _ matches
\* any one character, every other character matches itself without regard
\* to ASCII case
RECURSIVE Like(_, _)
Like(text, pattern) ==
    IF pattern = <<>> THEN text = <<>>
    ELSE IF Head(pattern) = "%"
         THEN \E k \in 0..Len(text) : Like(SubSeq(text, k + 1, Len(text)), Tail(pattern))
    ELSE IF text = <<>> THEN FALSE
    ELSE IF Head(pattern) = "_" THEN Like(Tail(text), Tail(pattern))
    ELSE /\ LowerChar(Head(pattern)) = LowerChar(Head(text))
         /\ Like(Tail(text), Tail(pattern))

\* f'%{part}%'
Wrap(part) == <<"%">> \o part \o <<"%">>

\* str comparison a < b, by code points
RECURSIVE StrLess(_, _)
StrLess(a, b) ==
    IF b = <<>> THEN FALSE
    ELSE IF a = <<>> THEN TRUE
    ELSE IF CharCode(Head(a)) # CharCode(Head(b)) THEN CharCode(Head(a)) < CharCode(Head(b))
    ELSE StrLess(Tail(a), Tail(b))

(***************************************************************************)
(* Ingestion: init_database                                                *)
(***************************************************************************)
\* Advisor_ID_1 .. Advisor_ID_8
NumSlots == 8

EmptyTables == [people |-> <<>>, schools |-> <<>>, dissertations |-> <<>>, advisors |-> <<>>]

HasKey(table, field, key) == \E i \in 1..Len(table) : table[i][field] = key

\* the author of the row joins people_dict unless the id is already there
AddAuthor(people_dict, row) ==
    LET author_name == Strip(row.Author_Name) IN
    IF /\ row.Author_ID # "" /\ author_name # <<>>
       /\ ~HasKey(people_dict, "person_id", row.Author_ID)
    THEN Append(people_dict, [person_id |-> row.Author_ID, name |-> author_name,
                              name_normalized |-> normalize_search_text(author_name)])
    ELSE people_dict

AddSchool(schools_dict, row) ==
    LET school_id == Strip(row.School_ID)
        school_name == Strip(row.School) IN
    IF /\ school_id # <<>> /\ school_name # <<>>
       /\ ~HasKey(schools_dict, "school_id", school_id)
    THEN Append(schools_dict, [school_id |-> school_id, school_name |-> school_name,
                               school_name_normalized |-> normalize_search_text(school_name)])
    ELSE schools_dict

\* the advisors of slots i..8 join people_dict
RECURSIVE AddAdvisorPeople(_, _, _)
AddAdvisorPeople(people_dict, row, i) ==
    IF i > NumSlots THEN people_dict
    ELSE LET advisor_id == row.Advisors[i].id
             advisor_name == Strip(row.Advisors[i].name)
             next == IF /\ advisor_id # "" /\ advisor_name # <<>> /\ advisor_id # "na"
                        /\ ~HasKey(people_dict, "person_id", advisor_id)
                     THEN Append(people_dict,
                                 [person_id |-> advisor_id, name |-> advisor_name,
                                  name_normalized |-> normalize_search_text(advisor_name)])
                     ELSE people_dict
         IN AddAdvisorPeople(next, row, i + 1)

\* INSERT OR IGNORE INTO dissertations
InsertDissertation(table, row) ==
    IF HasKey(table, "dissertation_id", row.ID) THEN table
    ELSE Append(table, [dissertation_id |-> row.ID, author_id |-> row.Author_ID,
                        school |-> Strip(row.School), school_id |-> Strip(row.School_ID),
                        year |-> row.Year])

\* INSERT INTO advisors, slots i..8
RECURSIVE InsertAdvisors(_, _, _)
InsertAdvisors(table, row, i) ==
    IF i > NumSlots THEN table
    ELSE LET advisor_id == row.Advisors[i].id
             next == IF advisor_id # "" /\ advisor_id # "na"
                     THEN Append(table, [dissertation_id |-> row.ID,
                                         advisor_id |-> advisor_id, advisor_number |-> i])
                     ELSE table
         IN InsertAdvisors(next, row, i + 1)

\* the body of the loop over the source rows
IngestRow(t, row) ==
    [people |-> AddAdvisorPeople(AddAuthor(t.people, row), row, 1),
     schools |-> AddSchool(t.schools, row),
     dissertations |-> IF row.ID # "" THEN InsertDissertation(t.dissertations, row)
                       ELSE t.dissertations,
     advisors |-> IF row.ID # "" THEN InsertAdvisors(t.advisors, row, 1) ELSE t.advisors]

\* the tables after the loop over rows[1..n]; people and schools are then
\* inserted from their dictionaries, in dictionary order
RECURSIVE IngestRows(_, _)
IngestRows(rows, n) ==
    IF n = 0 THEN EmptyTables ELSE IngestRow(IngestRows(rows, n - 1), rows[n])

init_database(rows) == IngestRows(rows, Len(rows))

(***************************************************************************)
(* log_correction: every call runs in the thread of its request            *)
(***************************************************************************)
\* the calls that can be in progress together
MaxWriters == 3

WriterNames == <<"w1", "w2", "w3", "w4", "w5">>
Writers == {WriterNames[i] : i \in 1..MaxWriters}

\* edit_person logs 'edit', add_person logs 'add_new'
ActionTypes == {"edit", "add_new"}

Header == <<"Timestamp", "User_Name", "Action_Type", "Record_ID", "Details">>

\* the row of one call; the name of the call stands for its timestamp
DataRow(w, action_type) == <<w, "user", action_type, "p1", "details">>

NotCalled == [pc |-> "idle", file_exists |-> FALSE, action_type |-> "", buffer |-> <<>>]

\* file_exists = os.path.exists(CORRECTIONS_LOG)
LogExists(w, action_type) ==
    /\ writers[w].pc = "idle"
    /\ writers' = [writers EXCEPT ![w] = [pc |-> "open", file_exists |-> log_exists,
                                          action_type |-> action_type, buffer |-> <<>>]]
    /\ UNCHANGED <<store, ingestVars, dcVars, searchVars, connections, log_exists, log_rows>>

\* open(CORRECTIONS_LOG, 'a'): append mode creates the file when it is missing
LogOpen(w) ==
    /\ writers[w].pc = "open"
    /\ log_exists' = TRUE
    /\ writers' = [writers EXCEPT ![w].pc = "header"]
    /\ UNCHANGED <<store, ingestVars, dcVars, searchVars, connections, log_rows>>

\* if not file_exists: writer.writerow(the header)
LogHeader(w) ==
    /\ writers[w].pc = "header"
    /\ writers' = [writers EXCEPT ![w].pc = "row",
                                  ![w].buffer = IF ~writers[w].file_exists
                                                THEN Append(@, Header) ELSE @]
    /\ UNCHANGED <<store, ingestVars, dcVars, searchVars, connections, log_exists, log_rows>>

\* writer.writerow(the data row)
LogRow(w) ==
    /\ writers[w].pc = "row"
    /\ writers' = [writers EXCEPT ![w].pc = "close",
                                  ![w].buffer = Append(@, DataRow(w, writers[w].action_type))]
    /\ UNCHANGED <<store, ingestVars, dcVars, searchVars, connections, log_exists, log_rows>>

\* the with block ends: the file is closed and what the call wrote, which
\* is shorter than the buffer of the file object, is appended in one write
LogClose(w) ==
    /\ writers[w].pc = "close"
    /\ log_rows' = log_rows \o writers[w].buffer
    /\ writers' = [writers EXCEPT ![w].pc = "done", ![w].buffer = <<>>]
    /\ UNCHANGED <<store, ingestVars, dcVars, searchVars, connections, log_exists>>

log_correction ==
    \/ \E w \in Writers, action_type \in ActionTypes : LogExists(w, action_type)
    \/ \E w \in Writers : LogOpen(w)
    \/ \E w \in Writers : LogHeader(w)
    \/ \E w \in Writers : LogRow(w)
    \/ \E w \in Writers : LogClose(w)

(***************************************************************************)
(* Connections to the store                                                *)
(***************************************************************************)
\* conn = sqlite3.connect(DB_PATH): one more connection is open
connect(open) == open + 1

\* conn.close(): one fewer
close(open) == open - 1

(***************************************************************************)
(* Reads of the store                                                      *)
(***************************************************************************)
\* a sequence without its repeated elements, first occurrences kept (DISTINCT)
RECURSIVE Distinct(_)
Distinct(seq) ==
    IF seq = <<>> THEN <<>>
    ELSE LET init == Distinct(SubSeq(seq, 1, Len(seq) - 1))
             last == seq[Len(seq)]
         IN IF \E i \in 1..Len(init) : init[i] = last THEN init ELSE Append(init, last)

Range(seq) == {seq[i] : i \in 1..Len(seq)}

\* advisors a JOIN dissertations d ON a.dissertation_id = d.dissertation_id
\* WHERE a.advisor_id = person_id: the dissertation rows, from link i on
RECURSIVE AdvisedFrom(_, _)
AdvisedFrom(person_id, i) ==
    IF i > Len(advisors) THEN <<>>
    ELSE (IF advisors[i].advisor_id = person_id
          THEN SelectSeq(dissertations,
                         LAMBDA d : d.dissertation_id = advisors[i].dissertation_id)
          ELSE <<>>) \o AdvisedFrom(person_id, i + 1)

AdvisedDissertations(person_id) == AdvisedFrom(person_id, 1)

\* students = [row[0] for row in c.fetchall() if row[0]]
DirectStudents(person_id) ==
    LET rows == AdvisedDissertations(person_id)
        authors == Distinct([i \in 1..Len(rows) |-> rows[i].author_id])
    IN SelectSeq(authors, LAMBDA a : a # "")

(***************************************************************************)
(* Affiliation aggregator: get_person_affiliations                         *)
(***************************************************************************)
\* no request has been served yet
NoResponse == [kind |-> "none"]

\* Every behaviour serves one request: the handlers only read the store, so
\* each request meets the state the first one meets.
Unanswered == response = NoResponse /\ affPerson = ""

\* Python's None in the year of an affiliation
None == "None"

\* SELECT DISTINCT school, school_id, year FROM dissertations WHERE author_id = ?
StudentRows(person_id) ==
    LET own == SelectSeq(dissertations, LAMBDA d : d.author_id = person_id)
    IN Distinct([i \in 1..Len(own) |->
                    [school |-> own[i].school, school_id |-> own[i].school_id,
                     year |-> own[i].year]])

\* SELECT DISTINCT d.school, d.school_id FROM advisors a JOIN dissertations d ...
\* WHERE a.advisor_id = ?
FacultyRows(person_id) ==
    LET rows == AdvisedDissertations(person_id)
    IN Distinct([i \in 1..Len(rows) |->
                    [school |-> rows[i].school, school_id |-> rows[i].school_id]])

\* key = school_id if school_id else school
AffiliationKey(row) == IF row.school_id # <<>> THEN row.school_id ELSE row.school

\* the dictionary affiliations, in insertion order, after the first loop
\* has seen rows[1..n]
RECURSIVE StudentPass(_, _)
StudentPass(rows, n) ==
    IF n = 0 THEN <<>>
    ELSE LET affiliations == StudentPass(rows, n - 1)
             row == rows[n]
         IN IF row.school # <<>> /\ ~HasKey(affiliations, "key", AffiliationKey(row))
            THEN Append(affiliations,
                        [key |-> AffiliationKey(row), school |-> row.school,
                         student |-> TRUE, faculty |-> FALSE, year |-> row.year])
            ELSE affiliations

\* the dictionary after the second loop has seen rows[1..n]
RECURSIVE FacultyPass(_, _, _)
FacultyPass(start, rows, n) ==
    IF n = 0 THEN start
    ELSE LET affiliations == FacultyPass(start, rows, n - 1)
             row == rows[n]
         IN IF row.school = <<>> THEN affiliations
            ELSE IF ~HasKey(affiliations, "key", AffiliationKey(row))
            THEN Append(affiliations,
                        [key |-> AffiliationKey(row), school |-> row.school,
                         student |-> FALSE, faculty |-> TRUE, year |-> None])
            ELSE [i \in 1..Len(affiliations) |->
                    IF affiliations[i].key = AffiliationKey(row)
                    THEN [affiliations[i] EXCEPT !.faculty = TRUE]
                    ELSE affiliations[i]]

\* list(affiliations.values())
get_person_affiliations(person_id) ==
    LET students == StudentRows(person_id)
        faculty == FacultyRows(person_id)
        affiliations == FacultyPass(StudentPass(students, Len(students)),
                                    faculty, Len(faculty))
    IN [i \in 1..Len(affiliations) |->
           [school |-> affiliations[i].school, student |-> affiliations[i].student,
            faculty |-> affiliations[i].faculty, year |-> affiliations[i].year]]

\* a direct call, as person_detail makes it
Affiliations(person_id) ==
    /\ affPerson' = person_id
    /\ affResult' = get_person_affiliations(person_id)
    /\ connections' = close(connect(connections))
    /\ UNCHANGED <<store, ingestVars, logVars, dcVars, request, response>>

(***************************************************************************)
(* Descendant counter: get_descendants_count                               *)
(***************************************************************************)
Persons == {"p1", "p2", "p3"}

\* the interpreter's recursion limit, scaled to the model: one frame more
\* than a traversal that expands every person once can need
MaxStack == Cardinality(Persons) + 1

\* if person_id in visited
AlreadyVisitedNever(person_id, seen) == FALSE
AlreadyVisited(person_id, seen) == person_id \in seen

\* total_descendants += descendant_count
AddCountDropped(total_descendants, descendant_count) == total_descendants
AddCount(total_descendants, descendant_count) == total_descendants + descendant_count

\* max_depth = max(max_depth, depth + 1)
DeeperNoHop(max_depth, depth) == Max(max_depth, depth)
Deeper(max_depth, depth) == Max(max_depth, depth + 1)

\* the frame of a call that has entered its for loop
NewFrame(person_id, students) ==
    [person_id |-> person_id, students |-> students, next |-> 1,
     total_descendants |-> Len(students), max_depth |-> 1]

\* the caller's frame after a recursive call returned (count, depth)
Resume(frame, count, depth) ==
    [frame EXCEPT !.next = @ + 1,
                  !.total_descendants = AddCount(@, count),
                  !.max_depth = Deeper(@, depth)]

Top == stack[Len(stack)]

\* the outermost call: visited is a fresh set, so the root is always expanded
StartCount(root) ==
    /\ dcStatus = "idle"
    /\ dcRoot' = root
    /\ visited' = {root}
    /\ LET students == DirectStudents(root) IN
       IF students = <<>>
       THEN /\ dcStatus' = "returned"
            /\ dcResult' = <<0, 0>>
            /\ stack' = <<>>
       ELSE /\ dcStatus' = "running"
            /\ dcResult' = dcResult
            /\ stack' = <<NewFrame(root, students)>>
    /\ connections' = close(connect(connections))
    /\ UNCHANGED <<store, ingestVars, logVars, searchVars>>

\* the recursive call for the next student returns (0, 0) at once: the
\* student is in visited, or is added to it and has no students
CallReturnsZero ==
    /\ dcStatus = "running"
    /\ Top.next <= Len(Top.students)
    /\ LET student_id == Top.students[Top.next] IN
       /\ \/ AlreadyVisited(student_id, visited)
          \/ DirectStudents(student_id) = <<>>
       /\ visited' = visited \cup {student_id}
       /\ stack' = [stack EXCEPT ![Len(stack)] = Resume(Top, 0, 0)]
       /\ connections' = IF AlreadyVisited(student_id, visited) THEN connections
                         ELSE close(connect(connections))
    /\ UNCHANGED <<store, ingestVars, logVars, dcStatus, dcRoot, dcResult, searchVars>>

\* the recursive call for the next student enters its own for loop; past
\* the recursion limit the interpreter raises RecursionError instead
CallDescends ==
    /\ dcStatus = "running"
    /\ Top.next <= Len(Top.students)
    /\ LET student_id == Top.students[Top.next] IN
       /\ ~AlreadyVisited(student_id, visited)
       /\ DirectStudents(student_id) # <<>>
       /\ visited' = visited \cup {student_id}
       /\ IF Len(stack) >= MaxStack
          THEN /\ dcStatus' = "overflow"
               /\ stack' = <<>>
               /\ connections' = connections
          ELSE /\ dcStatus' = dcStatus
               /\ stack' = Append(stack, NewFrame(student_id, DirectStudents(student_id)))
               /\ connections' = close(connect(connections))
    /\ UNCHANGED <<store, ingestVars, logVars, dcRoot, dcResult, searchVars>>

\* the for loop of the innermost call is over: return total_descendants, max_depth
ReturnCount ==
    /\ dcStatus = "running"
    /\ Top.next > Len(Top.students)
    /\ IF Len(stack) = 1
       THEN /\ dcStatus' = "returned"
            /\ dcResult' = <<Top.total_descendants, Top.max_depth>>
            /\ stack' = <<>>
       ELSE /\ dcStatus' = dcStatus
            /\ dcResult' = dcResult
            /\ stack' = [i \in 1..(Len(stack) - 1) |->
                            IF i = Len(stack) - 1
                            THEN Resume(stack[i], Top.total_descendants, Top.max_depth)
                            ELSE stack[i]]
    /\ UNCHANGED <<store, ingestVars, logVars, dcRoot, visited, connections, searchVars>>

StepCount == CallReturnsZero \/ CallDescends \/ ReturnCount

(***************************************************************************)
(* The source rows of the descendant-counter specification                 *)
(***************************************************************************)
\* the most advisor links a source file carries
MaxLinks == 4

PersonSeq == <<"p1", "p2", "p3">>

\* one dissertation per person and one whose author cell is empty
DescAuthors == <<"p1", "p2", "p3", "">>
DescIds == <<"d1", "d2", "d3", "d4">>

\* row i of the file: its advisors are the people of advSet, each in the
\* slot of their index; an absent advisor is "na" in slots 1..3 and an
\* empty cell after them
DescRow(i, advSet) ==
    [ID |-> DescIds[i], Author_ID |-> DescAuthors[i],
     Author_Name |-> IF DescAuthors[i] = "" THEN <<>> ELSE <<"a">>,
     School |-> <<"a", "b">>, School_ID |-> <<"s1">>, Year |-> "1990",
     Advisors |-> [k \in 1..NumSlots |->
                     IF k <= Len(PersonSeq) /\ PersonSeq[k] \in advSet
                     THEN [id |-> PersonSeq[k], name |-> <<"b">>]
                     ELSE IF k <= Len(PersonSeq) THEN [id |-> "na", name |-> <<>>]
                     ELSE [id |-> "", name |-> <<>>]]]

RECURSIVE SumCard(_, _)
SumCard(f, n) == IF n = 0 THEN 0 ELSE Cardinality(f[n]) + SumCard(f, n - 1)

InitIdle ==
    /\ dcStatus = "idle"
    /\ dcRoot = ""
    /\ visited = {}
    /\ stack = <<>>
    /\ dcResult = <<0, 0>>
    /\ request = [name_search |-> <<>>, school_search |-> <<>>]
    /\ response = NoResponse
    /\ affPerson = ""
    /\ affResult = <<>>
    /\ connections = 0
    /\ log_exists = FALSE
    /\ log_rows = <<>>
    /\ writers = [w \in Writers |-> NotCalled]

Loaded(t) ==
    /\ people = t.people
    /\ schools = t.schools
    /\ dissertations = t.dissertations
    /\ advisors = t.advisors

\* the store that init_database built from the rows of the file
LoadedFrom(rows) ==
    /\ source = rows
    /\ db_exists = TRUE
    /\ Loaded(init_database(rows))

InitDesc ==
    /\ \E adv \in [1..Len(DescIds) -> SUBSET Persons] :
          /\ SumCard(adv, Len(DescIds)) <= MaxLinks
          /\ LoadedFrom([i \in 1..Len(DescIds) |-> DescRow(i, adv[i])])
    /\ InitIdle

NextDesc == (\E root \in Persons : StartCount(root)) \/ StepCount

SpecDesc == InitDesc /\ [][NextDesc]_vars

\* a started call keeps running: nothing but the call itself can stop it
FairSpecDesc == SpecDesc /\ WF_vars(StepCount)

(***************************************************************************)
(* Search handler: search                                                  *)
(***************************************************************************)
\* the orders a set of rows can come in
Orders(rows) ==
    {f \in [1..Cardinality(rows) -> rows] :
        \A i, j \in 1..Cardinality(rows) : i # j => f[i] # f[j]}

\* ORDER BY name and results.sort(key=name): ascending by name, rows of
\* equal names in any order
SortedByName(rows) ==
    {f \in Orders(rows) :
        \A i, j \in 1..Cardinality(rows) : i < j => ~StrLess(f[j].name, f[i].name)}

\* WHERE name_normalized LIKE ? AND ... AND name_normalized LIKE ?
NameMatches(name_parts) ==
    {r \in Range(people) :
        \A i \in 1..Len(name_parts) : Like(r.name_normalized, Wrap(name_parts[i]))}

\* WHERE name_normalized LIKE ?, the pattern made of the whole query
FallbackMatches(name_normalized) ==
    {r \in Range(people) : Like(r.name_normalized, Wrap(name_normalized))}

\* WHERE school_name_normalized LIKE ?
SchoolMatches(school_normalized) ==
    {r \in Range(schools) : Like(r.school_name_normalized, Wrap(school_normalized))}

\* WHERE school_id = ? OR school = ?
AtSchoolByIdOnly(d, school_row) == d.school_id = school_row.school_id
AtSchool(d, school_row) ==
    d.school_id = school_row.school_id \/ d.school = school_row.school_name

\* the non-empty author_id of the dissertations at the school
SchoolStudents(school_row) ==
    {d.author_id : d \in {x \in Range(dissertations) : AtSchool(x, school_row)}} \ {""}

\* the non-empty advisor_id of the links on the dissertations at the school
SchoolFaculty(school_row) ==
    {a.advisor_id : a \in {x \in Range(advisors) :
        \E d \in Range(dissertations) :
            d.dissertation_id = x.dissertation_id /\ AtSchool(d, school_row)}} \ {""}

\* results.append({...}) for each row of rows
ResultsOf(rows) ==
    [i \in 1..Len(rows) |->
        [person_id |-> rows[i].person_id, name |-> rows[i].name,
         affiliations |-> get_person_affiliations(rows[i].person_id)]]

\* render_template('search.html', results=..., name_query=..., school_query=...)
\* printed: "Search error" went to the standard output; school_row: the
\* school the school branch settled on (None in the name branch)
Rendered(results, name_query, school_query, printed, school_row) ==
    [kind |-> "results", results |-> results, name_query |-> name_query,
     school_query |-> school_query, printed |-> printed, school_row |-> school_row]

\* render_template('search.html', error=...)
ErrorPage(error) == [kind |-> "error", error |-> error]

\* the handler ended with an exception, which the caller receives
Raised == [kind |-> "exception", printed |-> TRUE]

\* both fields blank: rejected before the store is touched
SearchRejected(name_search, school_search) ==
    /\ Strip(name_search) = <<>>
    /\ Strip(school_search) = <<>>
    /\ request' = [name_search |-> name_search, school_search |-> school_search]
    /\ response' = ErrorPage("Please enter a name or university")
    /\ UNCHANGED <<store, ingestVars, logVars, dcVars, affPerson, affResult, connections>>

\* name branch, the try block runs to its end (or is skipped: no tokens)
SearchNameTokens(name_search, school_search) ==
    LET name_query == Strip(name_search)
        name_parts == Split(normalize_search_text(name_query))
    IN /\ name_query # <<>>
       /\ request' = [name_search |-> name_search, school_search |-> school_search]
       /\ IF name_parts = <<>>
          THEN response' = Rendered(<<>>, name_query, Strip(school_search), FALSE, None)
          ELSE \E rows \in SortedByName(NameMatches(name_parts)) :
                  response' = Rendered(ResultsOf(rows), name_query, Strip(school_search),
                                       FALSE, None)
       /\ connections' = close(connect(connections))
       /\ UNCHANGED <<store, ingestVars, logVars, dcVars, affPerson, affResult>>

\* the results the try block had appended when a statement of it raised:
\* none if c.execute raised, the first k if get_person_affiliations raised
\* for row k + 1
Appended(rows) == {SubSeq(ResultsOf(rows), 1, k) : k \in 0..Max(Len(rows) - 1, 0)}

\* the connections that block never closed: none if c.execute raised, the
\* one of get_person_affiliations if a statement of that call raised
LeftOpen(rows, results) ==
    (IF results = <<>> THEN {0} ELSE {}) \cup (IF Len(rows) > Len(results) THEN {1} ELSE {})

\* name branch, a statement of the try block raises (sqlite3 raises for a
\* query with too many AND terms, for a pattern that is too long and when the
\* store cannot be read) and the except block runs to its end
SearchNameFallback(name_search, school_search) ==
    LET name_query == Strip(name_search)
        name_normalized == normalize_search_text(name_query)
        name_parts == Split(name_normalized)
    IN /\ name_query # <<>>
       /\ name_parts # <<>>
       /\ request' = [name_search |-> name_search, school_search |-> school_search]
       /\ \E rows \in SortedByName(NameMatches(name_parts)) :
          \E results \in Appended(rows) :
          \E more \in SortedByName(FallbackMatches(name_normalized)) :
          \E left_open \in LeftOpen(rows, results) :
             /\ response' = Rendered(results \o ResultsOf(more), name_query,
                                     Strip(school_search), TRUE, None)
             /\ connections' = close(connect(connections)) + left_open
       /\ UNCHANGED <<store, ingestVars, logVars, dcVars, affPerson, affResult>>

\* name branch, a statement of the try block raises and a statement of the
\* except block raises too: nothing catches the second exception
SearchNameRaises(name_search, school_search) ==
    LET name_query == Strip(name_search)
        name_normalized == normalize_search_text(name_query)
        name_parts == Split(name_normalized)
    IN /\ name_query # <<>>
       /\ name_parts # <<>>
       /\ request' = [name_search |-> name_search, school_search |-> school_search]
       /\ response' = Raised
       /\ \E rows \in SortedByName(NameMatches(name_parts)) :
          \E results \in Appended(rows) :
          \E more \in SortedByName(FallbackMatches(name_normalized)) :
          \E left_open \in LeftOpen(rows, results), left_again \in LeftOpen(more, <<>>) :
             connections' = connect(connections) + left_open + left_again
       /\ UNCHANGED <<store, ingestVars, logVars, dcVars, affPerson, affResult>>

\* school branch, no school row: "University not found"
SearchSchoolNotFound(name_search, school_search) ==
    LET school_query == Strip(school_search)
    IN /\ Strip(name_search) = <<>>
       /\ school_query # <<>>
       /\ SchoolMatches(normalize_search_text(school_query)) = {}
       /\ request' = [name_search |-> name_search, school_search |-> school_search]
       /\ response' = ErrorPage("University not found")
       /\ connections' = close(connect(connections))
       /\ UNCHANGED <<store, ingestVars, logVars, dcVars, affPerson, affResult>>

\* school branch, LIMIT 1 yields one of the matching schools
SearchSchoolFound(name_search, school_search) ==
    LET school_query == Strip(school_search)
    IN /\ Strip(name_search) = <<>>
       /\ school_query # <<>>
       /\ request' = [name_search |-> name_search, school_search |-> school_search]
       /\ \E school_row \in SchoolMatches(normalize_search_text(school_query)) :
          LET people_ids == SchoolStudents(school_row) \cup SchoolFaculty(school_row)
              found == {r \in Range(people) : r.person_id \in people_ids}
          IN \E rows \in SortedByName(found) :
                response' = Rendered(ResultsOf(rows), <<>>, school_query, FALSE, school_row)
       /\ connections' = close(connect(connections))
       /\ UNCHANGED <<store, ingestVars, logVars, dcVars, affPerson, affResult>>

\* the forms a client can still send
Pending(forms) == IF Unanswered THEN forms ELSE {}

search(forms) ==
    \/ \E form \in Pending(forms) : SearchRejected(form[1], form[2])
    \/ \E form \in Pending(forms) : SearchNameTokens(form[1], form[2])
    \/ \E form \in Pending(forms) : SearchNameFallback(form[1], form[2])
    \/ \E form \in Pending(forms) : SearchNameRaises(form[1], form[2])
    \/ \E form \in Pending(forms) : SearchSchoolNotFound(form[1], form[2])
    \/ \E form \in Pending(forms) : SearchSchoolFound(form[1], form[2])

\* the texts of at most n characters
Texts(n) == UNION {[1..k -> Alphabet] : k \in 0..n}

(***************************************************************************)
(* The source rows of the name-search specification                        *)
(***************************************************************************)
\* the longest name_search field
MaxNameQueryLen == 3

\* the Author_Name cells
NameChoices == {<<"a", "b">>, <<"b", " ", "a">>, <<"A", "á">>, <<" ", "b">>}

\* two dissertations at one school; p3 advised the second
NameRow(i, author_name) ==
    [ID |-> DescIds[i], Author_ID |-> PersonSeq[i], Author_Name |-> author_name,
     School |-> <<"a", "b">>, School_ID |-> <<"s1">>, Year |-> "1990",
     Advisors |-> [k \in 1..NumSlots |->
                     IF k = 1 /\ i = 2 THEN [id |-> "p3", name |-> <<"b">>]
                     ELSE IF k = 1 THEN [id |-> "na", name |-> <<>>]
                     ELSE [id |-> "", name |-> <<>>]]]

InitName ==
    /\ \E n1, n2 \in NameChoices :
          LoadedFrom(<<NameRow(1, n1), NameRow(2, n2)>>)
    /\ InitIdle

\* the school_search fields sent along: blank, one that matches the school
\* and one that does not
NameSpecSchoolFields == {<<>>, <<"a">>, <<"b", "b">>}

\* the forms: every name_search with a blank school_search, and the name
\* fields of at most one character with every school_search
NameForms ==
    {form \in Texts(MaxNameQueryLen) \X NameSpecSchoolFields :
        form[2] = <<>> \/ Len(form[1]) <= 1}

NextName == search(NameForms)

SpecName == InitName /\ [][NextName]_vars

(***************************************************************************)
(* The source rows of the school-search specification                      *)
(***************************************************************************)
\* the longest school_search field
MaxSchoolQueryLen == 2

\* the School and School_ID cells: two schools, each with or without its
\* id, the name of one under the id of the other, and a row without school
SchoolCells ==
    {[School |-> <<"A", "b">>, School_ID |-> <<"s1">>],
     [School |-> <<"A", "b">>, School_ID |-> <<>>],
     [School |-> <<"b", "a">>, School_ID |-> <<"s2">>],
     [School |-> <<"b", "a">>, School_ID |-> <<"s1">>],
     [School |-> <<>>, School_ID |-> <<>>]}

\* the Author_ID and Author_Name cells of the second row
AuthorCells ==
    {[Author_ID |-> "p2", Author_Name |-> <<"a">>],
     [Author_ID |-> "p2", Author_Name |-> <<>>],
     [Author_ID |-> "", Author_Name |-> <<>>]}

\* the Advisor_ID_1 and Advisor_Name_1 cells: no advisor, the author of the
\* other row, and an advisor whose name cell is empty
AdvisorCells(other) ==
    {[id |-> "na", name |-> <<>>],
     [id |-> other, name |-> IF other = "p1" THEN <<"b">> ELSE <<"a">>],
     [id |-> "p3", name |-> <<>>]}

SchoolRow(i, author, school, advisor) ==
    [ID |-> DescIds[i], Author_ID |-> author.Author_ID, Author_Name |-> author.Author_Name,
     School |-> school.School, School_ID |-> school.School_ID, Year |-> "1990",
     Advisors |-> [k \in 1..NumSlots |->
                     IF k = 1 THEN advisor ELSE [id |-> "", name |-> <<>>]]]

InitSchool ==
    /\ \E school1 \in {c \in SchoolCells : c.School = <<"A", "b">> \/ c.School_ID = <<"s2">>},
          advisor1 \in AdvisorCells("p2"),
          author2 \in AuthorCells, school2 \in SchoolCells, advisor2 \in AdvisorCells("p1") :
          LoadedFrom(
              <<SchoolRow(1, [Author_ID |-> "p1", Author_Name |-> <<"b">>], school1, advisor1),
                SchoolRow(2, author2, school2, advisor2)>>)
    /\ InitIdle

\* the forms: every school_search with a blank name_search, and a
\* name_search with and without a school_search
SchoolForms ==
    ({<<>>} \X Texts(MaxSchoolQueryLen)) \cup {<<<<"a">>, <<>>>>, <<<<"a">>, <<"a">>>>}

NextSchool ==
    \/ search(SchoolForms)
    \/ \E person_id \in Pending(Persons) : Affiliations(person_id)

SpecSchool == InitSchool /\ [][NextSchool]_vars

(***************************************************************************)
(* The advisor graph, as the specification defines it                      *)
(***************************************************************************)
\* advisor -> direct student: the advisor appears on a dissertation of the student
Advised(advisor_id, student_id) ==
    /\ student_id # ""
    /\ \E i \in 1..Len(advisors), j \in 1..Len(dissertations) :
          /\ advisors[i].advisor_id = advisor_id
          /\ advisors[i].dissertation_id = dissertations[j].dissertation_id
          /\ dissertations[j].author_id = student_id

StudentsOf(group) == {s \in Persons : \E a \in group : Advised(a, s)}

\* the people reachable from those of group in 1..n hops
RECURSIVE ReachWithin(_, _)
ReachWithin(group, n) ==
    IF n = 0 THEN {}
    ELSE StudentsOf(group) \cup ReachWithin(StudentsOf(group), n - 1)

\* the distinct people reachable from root along advisor -> student edges
Descendants(root) == ReachWithin({root}, Cardinality(Persons))

\* the hops of the longest simple path that starts at person_id and avoids used
RECURSIVE LongestFrom(_, _)
LongestFrom(person_id, used) ==
    LET nexts == {s \in Persons \ used : Advised(person_id, s)} IN
    IF nexts = {} THEN 0
    ELSE LET lens == {1 + LongestFrom(s, used \cup {s}) : s \in nexts}
         IN CHOOSE m \in lens : \A k \in lens : k <= m

LongestSimplePath(root) == LongestFrom(root, {root})

AdvisorsOf(student_id) == {a \in Persons : Advised(a, student_id)}

\* below root the graph is a tree: root is not its own descendant and every
\* descendant has exactly one advisor
IsTreeBelow(root) ==
    /\ root \notin Descendants(root)
    /\ \A s \in Descendants(root) : Cardinality(AdvisorsOf(s)) = 1

\* some descendant of root is reached along two edges, or root lies on a cycle
ConvergesBelow(root) ==
    \/ root \in Descendants(root)
    \/ \E s \in Descendants(root) :
          Cardinality(AdvisorsOf(s) \cap (Descendants(root) \cup {root})) > 1

(***************************************************************************)
(* Claims about the descendant counter (specification SpecDesc)            *)
(***************************************************************************)
\* C1: the totalDescendants returned by get_descendants_count(root) is the
\* number of distinct people reachable from root, each counted once however
\* many paths reach them.
C1_TotalIsDistinctReachable ==
    dcStatus = "returned" => dcResult[1] = Cardinality(Descendants(dcRoot))

\* C2: the maxDepth returned by get_descendants_count(root) is the length in
\* hops of the longest simple path that starts at root.
C2_DepthIsLongestSimplePath ==
    dcStatus = "returned" => dcResult[2] = LongestSimplePath(dcRoot)

\* C3: a started get_descendants_count(root) always eventually returns a
\* result, on every graph, cycles and self-loops included, and never runs
\* into the recursion limit.
C3_Terminates ==
    /\ (dcStatus = "running") ~> (dcStatus = "returned")
    /\ [](dcStatus # "overflow")

\* C3 witness: a call returned on a graph in which the root lies on a cycle
\* and the traversal went at least two calls deep
C3_Witness ==
    /\ dcStatus = "returned"
    /\ dcRoot \in Descendants(dcRoot)
    /\ Cardinality(visited) >= 2
    /\ dcResult[2] >= 2

\* C4: with cycles or converging paths the returned totalDescendants is never
\* greater than the true number of distinct people reachable from root.
C4_TotalNeverAboveReachable ==
    dcStatus = "returned" => dcResult[1] <= Cardinality(Descendants(dcRoot))

\* C5: when the graph below root is a tree, get_descendants_count(root)
\* returns (number of people below root, height of the tree): (0, 0) for a
\* person without direct students.
C5_TreeStats ==
    (dcStatus = "returned" /\ IsTreeBelow(dcRoot)) =>
        /\ dcResult = <<Cardinality(Descendants(dcRoot)), LongestSimplePath(dcRoot)>>
        /\ (DirectStudents(dcRoot) = <<>> => dcResult = <<0, 0>>)

\* C5 witness: the chain A -> B -> C was counted from A, giving (2, 2)
C5_Witness ==
    /\ dcStatus = "returned"
    /\ IsTreeBelow(dcRoot)
    /\ \E b, c \in Persons \ {dcRoot} :
          /\ b # c
          /\ Range(DirectStudents(dcRoot)) = {b}
          /\ Range(DirectStudents(b)) = {c}
          /\ DirectStudents(c) = <<>>
    /\ dcResult = <<2, 2>>

(***************************************************************************)
(* Claims about the search handler and the affiliation aggregator          *)
(***************************************************************************)
\* part occurs in text as a literal substring
Contains(text, part) ==
    \E i \in 0..(Len(text) - Len(part)) : SubSeq(text, i + 1, i + Len(part)) = part

NormalizedNameOf(person_id) ==
    (CHOOSE r \in Range(people) : r.person_id = person_id).name_normalized

\* the tokens of the name_search field of the request
RequestTokens == Split(normalize_search_text(Strip(request.name_search)))

\* the served request took the name branch and a page of results came back
NameResults ==
    /\ response.kind = "results"
    /\ Strip(request.name_search) # <<>>

\* the served request took the school branch
SchoolRequest ==
    /\ response # NoResponse
    /\ Strip(request.name_search) = <<>>
    /\ Strip(request.school_search) # <<>>

ResultIds == {response.results[i].person_id : i \in 1..Len(response.results)}

\* C6: with at least one token in the query, every person the name branch
\* returns has a normalized name that contains every token as a literal
\* substring, on the multi-token path and on the fallback path.
C6_NameResultsContainTokens ==
    (NameResults /\ RequestTokens # <<>>) =>
        \A i \in 1..Len(response.results), t \in 1..Len(RequestTokens) :
            Contains(NormalizedNameOf(response.results[i].person_id), RequestTokens[t])

\* the dissertations at a school: those that carry its id or its raw name
DissertationsAt(school_row) ==
    {d \in Range(dissertations) :
        d.school_id = school_row.school_id \/ d.school = school_row.school_name}

\* (a) the author ids of the dissertations at the school and (b) the advisor
\* ids of the advisor links on them
AssociatedIds(school_row) ==
    ({d.author_id : d \in DissertationsAt(school_row)}
     \cup {a.advisor_id : a \in {x \in Range(advisors) :
              \E d \in DissertationsAt(school_row) :
                  d.dissertation_id = x.dissertation_id}}) \ {""}

PeopleIds == {people[i].person_id : i \in 1..Len(people)}

NoResultTwice ==
    \A i, j \in 1..Len(response.results) :
        i # j => response.results[i].person_id # response.results[j].person_id

\* C7 as claimed: for a school query that matches a school, the school
\* branch returns exactly one result per person id in the union of the
\* author ids and the advisor ids of the dissertations at that school.
C7_OneResultPerAssociatedId ==
    (SchoolRequest /\ response.kind = "results") =>
        /\ ResultIds = AssociatedIds(response.school_row)
        /\ NoResultTwice

\* C7 as amended: the school branch returns exactly one result per person id
\* of that union that has a row in the people table; the ids without such a
\* row (no source row names them) are left out.
C7_OneResultPerKnownAssociatedId ==
    (SchoolRequest /\ response.kind = "results") =>
        /\ ResultIds = AssociatedIds(response.school_row) \cap PeopleIds
        /\ NoResultTwice

\* C7 witness: the school branch answered with an author whose dissertation
\* carries only the raw name of the school and with an advisor, while an
\* associated id has no row in people
C7_Witness ==
    /\ SchoolRequest
    /\ response.kind = "results"
    /\ \E d \in DissertationsAt(response.school_row) :
          /\ d.school_id # response.school_row.school_id
          /\ d.author_id \in ResultIds
    /\ \E a \in Range(advisors) :
          /\ a.advisor_id \in ResultIds
          /\ \E d \in DissertationsAt(response.school_row) :
                d.dissertation_id = a.dissertation_id
    /\ AssociatedIds(response.school_row) \ PeopleIds # {}

\* C8: the school branch answers "not found" if and only if no school's
\* normalized name contains the normalized query as a substring.
C8_NotFoundIffNoSchoolContains ==
    SchoolRequest =>
        ((response = ErrorPage("University not found")) <=>
         ~\E r \in Range(schools) :
             Contains(r.school_name_normalized,
                      normalize_search_text(Strip(request.school_search))))

\* the raw school names of the dissertations at a school
NamesAt(school_row) == {d.school : d \in DissertationsAt(school_row)}

\* C9: a person who authored a dissertation at school X and appears as an
\* advisor on a dissertation at school X gets exactly one entry for X, with
\* student and faculty both true, whether the rows carry X's id or only its
\* raw name.
C9_OneEntryPerSchool ==
    affPerson # "" =>
        \A x \in Range(schools) :
            (/\ \E d \in DissertationsAt(x) : d.author_id = affPerson
             /\ \E d \in DissertationsAt(x), a \in Range(advisors) :
                   a.dissertation_id = d.dissertation_id /\ a.advisor_id = affPerson)
            => LET entries == {i \in 1..Len(affResult) : affResult[i].school \in NamesAt(x)}
               IN /\ Cardinality(entries) = 1
                  /\ \A i \in entries : affResult[i].student /\ affResult[i].faculty

\* C10: when the multi-token match fails, the fallback runs and the request
\* still completes with a result list: the fallback never raises and the
\* failure never reaches the caller.
C10_FallbackNeverRaises ==
    (response.kind \in {"results", "exception"} /\ response.printed) =>
        response.kind = "results"

(***************************************************************************)
(* What the descendant counter computes (specification SpecDesc)           *)
(***************************************************************************)
\* the distinct (advisor, student) pairs whose advisor is root or a
\* descendant of root
PairsBelow(root) ==
    {pair \in (Descendants(root) \cup {root}) \X Persons : Advised(pair[1], pair[2])}

MaxSourceRows == 3

SourceRow(id, author_id, advisor_id) ==
    [ID |-> id, Author_ID |-> author_id, Author_Name |-> <<"a">>,
     School |-> <<"a", "b">>, School_ID |-> <<"s1">>, Year |-> "1990",
     Advisors |-> [k \in 1..NumSlots |->
                     IF k = 1 THEN [id |-> advisor_id, name |-> <<"b">>]
                     ELSE [id |-> "", name |-> <<>>]]]

\* the rows a file can hold: two dissertation ids and the empty ID cell,
\* two authors, and in slot 1 no advisor or one of two people
SourceRows ==
    {SourceRow(id, author_id, advisor_id) :
        id \in {"d1", "d2", ""}, author_id \in {"p1", "p2"}, advisor_id \in {"na", "p1", "p3"}}

InitIngest ==
    /\ source \in UNION {[1..n -> SourceRows] : n \in 0..MaxSourceRows}
    /\ db_exists = FALSE
    /\ Loaded(EmptyTables)
    /\ InitIdle

\* init_database() when DB_PATH does not exist; when it exists the call
\* returns at once, or with FORCE_REINIT set removes it and builds it again
InitDatabase ==
    /\ ~db_exists
    /\ LET t == init_database(source)
       IN /\ people' = t.people
          /\ schools' = t.schools
          /\ dissertations' = t.dissertations
          /\ advisors' = t.advisors
    /\ db_exists' = TRUE
    /\ connections' = close(connect(connections))
    /\ UNCHANGED <<source, dcVars, searchVars, logVars>>

NextIngest == InitDatabase

SpecIngest == InitIngest /\ [][NextIngest]_vars

\* the rows of the file whose ID cell repeats the ID cell of an earlier row
Repeats(rows) ==
    {i \in 1..Len(rows) : rows[i].ID # "" /\ \E j \in 1..(i - 1) : rows[j].ID = rows[i].ID}

\* the file without those rows
RECURSIVE WithoutRepeats(_, _)
WithoutRepeats(rows, n) ==
    IF n = 0 THEN <<>>
    ELSE IF n \in Repeats(rows) THEN WithoutRepeats(rows, n - 1)
    ELSE Append(WithoutRepeats(rows, n - 1), rows[n])

Tables == [people |-> people, schools |-> schools,
           dissertations |-> dissertations, advisors |-> advisors]

\* C12: once init_database has ingested the file, a row whose dissertation
\* id repeats that of an earlier row has left nothing in the store: the store
\* is the one built from the file without such rows, it holds at most one
\* dissertation per dissertation id, and at most one advisor link per
\* dissertation id and advisor slot.
C12_RepeatedIdRowsSkipped ==
    db_exists =>
        /\ Tables = init_database(WithoutRepeats(source, Len(source)))
        /\ \A i, j \in 1..Len(dissertations) :
              dissertations[i].dissertation_id = dissertations[j].dissertation_id => i = j
        /\ \A i, j \in 1..Len(advisors) :
              /\ advisors[i].dissertation_id = advisors[j].dissertation_id
              /\ advisors[i].advisor_number = advisors[j].advisor_number
              => i = j

(***************************************************************************)
(* Calls of log_correction in progress together (specification SpecLog)    *)
(***************************************************************************)
InitLog ==
    /\ LoadedFrom(<<NameRow(1, <<"a", "b">>), NameRow(2, <<"b", " ", "a">>)>>)
    /\ InitIdle

NextLog == log_correction

SpecLog == InitLog /\ [][NextLog]_vars

Completed == {w \in Writers : writers[w].pc = "done"}

\* some call has completed and no call is in progress
NoCallInProgress ==
    /\ Completed # {}
    /\ \A w \in Writers : writers[w].pc \in {"idle", "done"}

Occurrences(rows, row) == Cardinality({i \in 1..Len(rows) : rows[i] = row})

\* C14: when calls of log_correction that started with the log file missing
\* have all completed, in whatever interleaving, the file holds exactly one
\* header row, that row is its first, and every completed call has
\* contributed exactly one data row and nothing else.
C14_OneHeaderOneRowPerCall ==
    NoCallInProgress =>
        /\ log_exists
        /\ Occurrences(log_rows, Header) = 1
        /\ log_rows[1] = Header
        /\ \A w \in Completed :
              Occurrences(log_rows, DataRow(w, writers[w].action_type)) = 1
        /\ Len(log_rows) = 1 + Cardinality(Completed)

(***************************************************************************)
(* Connections after an operation has ended (specification SpecName)       *)
(***************************************************************************)
\* C11: whenever no operation is in the middle of a step, every connection
\* an operation opened has been closed, whether the operation returned or
\* ended with an exception.
C11_NoConnectionLeftOpen == connections = 0

====
